---- MODULE Spec2Model ----
(***************************************************************************)
(* Model of the Whiteboard class of src/src/whiteboard.js.                 *)
(*                                                                         *)
(* Items are JavaScript objects, so they live in a heap and the engine     *)
(* holds references to them: `heap` is the sequence of all live objects    *)
(* (a reference is an index into it), `itemsList` is this.itemsList, a     *)
(* sequence of references.  A call is one step (the handler runs to        *)
(* completion); `last` records what the caller observed of it, and         *)
(* `retArray` which array the caller holds from the last items() call.     *)
(***************************************************************************)
EXTENDS Naturals, Sequences, FiniteSets

VARIABLES heap, input, itemsList, pc, last, retArray

vars == <<heap, input, itemsList, pc, last, retArray>>

(***************************************************************************)
(* Values.  Ids are strings; "" is the falsy string (it stands for every   *)
(* defined value that JavaScript treats as false), Undefined is the value  *)
(* `undefined`, which is no member of Id.                                  *)
(***************************************************************************)
Undefined == "undefined"

Id == {"", "a", "b", "id_1"}

\* the ids in use once the engine is operated on (a subset, to keep the
\* number of engines small)
LiveId == {"", "a", "id_1"}

LowerIdOf(ids) == ids \cup {Undefined}

\* Payloads are opaque to the engine: one token for the records loaded from
\* the database, one for the records added later, one for the objects a caller
\* builds only to name the records to extract.
InputData == {"x"}

AddData == {"y"}

SelData == {"z"}

Data == InputData \cup AddData \cup SelData

\* outcomes of generateUniqueId: `id_` followed by digits of Math.random()
GenId == {"id_1", "id_2"}

\* the records an input array may hold, with ids drawn from `ids`
InputItem(ids) == [id : ids, lowerId : LowerIdOf(ids), data : InputData]

\* the records the caller may pass to add
AddItem == [id : LiveId, lowerId : LowerIdOf(LiveId), data : AddData]

\* the reference that is no object (`undefined` where an object is expected)
NoRef == 0

(***************************************************************************)
(* Bounds.                                                                 *)
(***************************************************************************)
MaxInput == 3

MaxSel == 2

\* JavaScript truthiness of an id value: `if (item.lowerId)`
Truthy(v) == v # Undefined /\ v # ""

Indices(s) == 1..Len(s)

Range(s) == {s[i] : i \in Indices(s)}

SeqsUpTo(S, n) == UNION {[1..k -> S] : k \in 0..n}

(***************************************************************************)
(* constructor(items)                                                      *)
(***************************************************************************)
\* variant: an item is compared with the item just before it only
HasAdjacentDuplicateId(h, items) ==
    \E i \in Indices(items) :
        i + 1 \in Indices(items) /\ h[items[i]].id = h[items[i + 1]].id

\* lines 29-34: a second item with an id already in itemMap throws
HasDuplicateId(h, items) ==
    \E i, j \in Indices(items) : i < j /\ h[items[i]].id = h[items[j]].id

\* lines 24-34: itemMap, id -> item (defined once no id is duplicated)
ItemMap(h, items) ==
    [k \in {h[r].id : r \in Range(items)} |->
        CHOOSE r \in Range(items) : h[r].id = k]

\* line 46 / 68-70: the lower item the walk continues with, if any
LowerOf(h, m, r) ==
    IF Truthy(h[r].lowerId) /\ h[r].lowerId \in DOMAIN m
    THEN m[h[r].lowerId] ELSE NoRef

\* lines 41-50: checkCycle; TRUE when it throws.  `visited` holds the ids of
\* the walk in progress (each id is deleted again when its call returns).
RECURSIVE CheckCycle(_, _, _, _)
CheckCycle(h, m, r, visited) ==
    IF h[r].id \in visited THEN TRUE
    ELSE IF LowerOf(h, m, r) # NoRef
         THEN CheckCycle(h, m, LowerOf(h, m, r), visited \cup {h[r].id})
         ELSE FALSE

\* line 53: the lowerId existence test of one item
Dangling(h, m, r) == Truthy(h[r].lowerId) /\ h[r].lowerId \notin DOMAIN m

\* lines 52-57: per item, in input order, existence test then cycle walk;
\* the first throw ends the loop
RECURSIVE Validate(_, _, _, _)
Validate(h, m, items, i) ==
    IF i > Len(items) THEN "none"
    ELSE IF Dangling(h, m, items[i]) THEN "dangling"
    ELSE IF CheckCycle(h, m, items[i], {}) THEN "cycle"
    ELSE Validate(h, m, items, i + 1)

\* lines 66-74: addItemToOrder; st = [ordered, added]
RECURSIVE AddItemToOrder(_, _, _, _)
AddItemToOrder(h, m, st, r) ==
    IF h[r].id \in st.added THEN st
    ELSE LET below == IF LowerOf(h, m, r) # NoRef
                      THEN AddItemToOrder(h, m, st, LowerOf(h, m, r))
                      ELSE st
         IN [ordered |-> Append(below.ordered, r),
             added   |-> below.added \cup {h[r].id}]

\* line 76: items.forEach(item => addItemToOrder(item))
RECURSIVE OrderFrom(_, _, _, _, _)
OrderFrom(h, m, items, i, st) ==
    IF i > Len(items) THEN st
    ELSE OrderFrom(h, m, items, i + 1, AddItemToOrder(h, m, st, items[i]))

\* lines 22-79: the constructor as a whole
Construct(h, items) ==
    IF HasDuplicateId(h, items)
    THEN [ok |-> FALSE, err |-> "duplicate", list |-> <<>>]
    ELSE LET m == ItemMap(h, items)
             v == Validate(h, m, items, 1)
         IN IF v # "none"
            THEN [ok |-> FALSE, err |-> v, list |-> <<>>]
            ELSE [ok |-> TRUE, err |-> "none",
                  list |-> OrderFrom(h, m, items, 1,
                               [ordered |-> <<>>, added |-> {}]).ordered]

(***************************************************************************)
(* items(), top()                                                          *)
(***************************************************************************)
\* lines 85-87: a new array with the same elements
Items(list) == [i \in Indices(list) |-> list[i]]

\* variant: the engine's own array is handed out
ItemsReturnsOwn(list) == [array |-> "itemsList", elems |-> list]

\* line 86: what items() returns, with the identity of the array: the spread
\* makes a new array ("copy"), not this.itemsList itself ("itemsList")
ItemsReturns(list) == [array |-> "copy", elems |-> Items(list)]

\* lines 92-94: the last element, undefined on an empty list
Top(list) == IF Len(list) = 0 THEN NoRef ELSE list[Len(list)]

(***************************************************************************)
(* add(item)                                                               *)
(***************************************************************************)
\* variant: only the top item's id is compared
IdExistsTopOnly(h, list, id) == Top(list) # NoRef /\ h[Top(list)].id = id

\* line 104: this.itemsList.some(existingItem => existingItem.id === item.id)
IdExists(h, list, id) == \E i \in Indices(list) : h[list[i]].id = id

\* variant: an item without a (truthy) lowerId is let through
TopMismatchIfSet(h, list, r) ==
    Truthy(h[r].lowerId) /\ Top(list) # NoRef /\ h[Top(list)].id # h[r].lowerId

\* line 107: this.top() && this.top().id !== item.lowerId
TopMismatch(h, list, r) ==
    Top(list) # NoRef /\ h[Top(list)].id # h[r].lowerId

\* variant: unshift instead of push
Unshift(list, r) == <<r>> \o list

\* line 110: this.itemsList.push(item)
Push(list, r) == Append(list, r)

\* lines 103-111: add as a whole; r is the reference of the item passed
Add(h, list, r) ==
    IF IdExists(h, list, h[r].id)
    THEN [ok |-> FALSE, err |-> "duplicate", list |-> list]
    ELSE IF TopMismatch(h, list, r)
    THEN [ok |-> FALSE, err |-> "brokenchain", list |-> list]
    ELSE [ok |-> TRUE, err |-> "none", list |-> Push(list, r)]

(***************************************************************************)
(* extract(items)                                                          *)
(***************************************************************************)
\* line 149: this.itemsList.find(existing => existing.id === item.id)
Find(h, list, id) ==
    IF \E i \in Indices(list) : h[list[i]].id = id
    THEN list[CHOOSE i \in Indices(list) :
                 /\ h[list[i]].id = id
                 /\ \A j \in 1..(i - 1) : h[list[j]].id # id]
    ELSE NoRef

\* variant: the record found is written to instead of copied
SpreadCopyInPlace(h, existing, newId) ==
    [heap |-> [h EXCEPT ![existing] = [@ EXCEPT !.id = newId,
                                               !.lowerId = Undefined]],
     ref  |-> existing]

\* line 153: {...existingItem, id: this.generateUniqueId(), lowerId: undefined},
\* a new object; newId is what generateUniqueId returned
SpreadCopy(h, existing, newId) ==
    [heap |-> Append(h, [h[existing] EXCEPT !.id = newId,
                                            !.lowerId = Undefined]),
     ref  |-> Len(h) + 1]

\* variant: the item passed is spread instead of the record found
RECURSIVE ExtractMapOfItem(_, _, _, _, _, _)
ExtractMapOfItem(h, list, sel, gen, i, out) ==
    IF i > Len(sel) THEN [ok |-> TRUE, heap |-> h, ret |-> out]
    ELSE LET existing == Find(h, list, h[sel[i]].id)
         IN IF existing = NoRef
            THEN [ok |-> FALSE, heap |-> h, ret |-> <<>>]
            ELSE LET c == SpreadCopy(h, sel[i], gen[i])
                 IN ExtractMapOfItem(c.heap, list, sel, gen, i + 1,
                                     Append(out, c.ref))

\* variant: an item not found is left out instead of thrown on
RECURSIVE ExtractMapSkip(_, _, _, _, _, _)
ExtractMapSkip(h, list, sel, gen, i, out) ==
    IF i > Len(sel) THEN [ok |-> TRUE, heap |-> h, ret |-> out]
    ELSE LET existing == Find(h, list, h[sel[i]].id)
         IN IF existing = NoRef
            THEN ExtractMapSkip(h, list, sel, gen, i + 1, out)
            ELSE LET c == SpreadCopy(h, existing, gen[i])
                 IN ExtractMapSkip(c.heap, list, sel, gen, i + 1,
                                   Append(out, c.ref))

\* lines 148-154: items.map(...); the first item not found throws
RECURSIVE ExtractMap(_, _, _, _, _, _)
ExtractMap(h, list, sel, gen, i, out) ==
    IF i > Len(sel) THEN [ok |-> TRUE, heap |-> h, ret |-> out]
    ELSE LET existing == Find(h, list, h[sel[i]].id)
         IN IF existing = NoRef
            THEN [ok |-> FALSE, heap |-> h, ret |-> <<>>]
            ELSE LET c == SpreadCopy(h, existing, gen[i])
                 IN ExtractMap(c.heap, list, sel, gen, i + 1,
                               Append(out, c.ref))

\* lines 156-158: extractedItems[i].lowerId = extractedItems[i - 1].id
RECURSIVE LinkLoop(_, _, _)
LinkLoop(h, ret, i) ==
    IF i > Len(ret) THEN h
    ELSE LinkLoop([h EXCEPT ![ret[i]].lowerId = h[ret[i - 1]].id], ret, i + 1)

\* lines 146-161: extract as a whole.  The copies made before a throw are
\* unreachable afterwards and are dropped from the heap.
Extract(h, list, sel, gen) ==
    LET m == ExtractMap(h, list, sel, gen, 1, <<>>)
    IN IF m.ok
       THEN [ok |-> TRUE, err |-> "none",
             heap |-> LinkLoop(m.heap, m.ret, 2), ret |-> m.ret]
       ELSE [ok |-> FALSE, err |-> "notfound",
             heap |-> SubSeq(m.heap, 1, Len(h)), ret |-> <<>>]

(***************************************************************************)
(* The caller.                                                             *)
(***************************************************************************)
\* an object the caller builds only to name a record by id
SelObject(id) == [id |-> id, lowerId |-> Undefined, data |-> CHOOSE d \in SelData : TRUE]

\* The selection array: per id either the engine's own object (alias, as in
\* the test at lines 156-168) or a new object with that id (lines 134-137).
RECURSIVE Selection(_, _, _, _, _, _)
Selection(h, list, ids, alias, i, refs) ==
    IF i > Len(ids) THEN [heap |-> h, refs |-> refs]
    ELSE IF alias /\ Find(h, list, ids[i]) # NoRef
    THEN Selection(h, list, ids, alias, i + 1,
                   Append(refs, Find(h, list, ids[i])))
    ELSE Selection(Append(h, SelObject(ids[i])), list, ids, alias, i + 1,
                   Append(refs, Len(h) + 1))

Idle == [op |-> "none", ok |-> TRUE, err |-> "none", arg |-> <<>>,
         ret |-> <<>>, before |-> <<>>, pre |-> <<>>]

(***************************************************************************)
(* The state machine.                                                      *)
(***************************************************************************)
\* before construction: the caller holds the array loaded from the database
InitWith(ids) ==
    /\ heap \in SeqsUpTo(InputItem(ids), MaxInput)
    /\ input = [i \in 1..Len(heap) |-> i]
    /\ itemsList = <<>>
    /\ pc = "new"
    /\ last = Idle
    /\ retArray = "none"

Init == InitWith(LiveId)

InitNew == InitWith(Id)

\* new Whiteboard(input)
New ==
    /\ pc = "new"
    /\ LET c == Construct(heap, input)
       IN /\ itemsList' = c.list
          /\ pc' = IF c.ok THEN "returned" ELSE "failed"
          /\ last' = [op |-> "new", ok |-> c.ok, err |-> c.err, arg |-> input,
                      ret |-> <<>>, before |-> <<>>, pre |-> heap]
    /\ retArray' = "none"
    /\ UNCHANGED <<heap, input>>

\* whiteboard.items()
CallItems ==
    /\ pc = "ready"
    /\ last' = [op |-> "items", ok |-> TRUE, err |-> "none", arg |-> <<>>,
                ret |-> ItemsReturns(itemsList).elems,
                before |-> itemsList, pre |-> heap]
    /\ retArray' = ItemsReturns(itemsList).array
    /\ pc' = "returned"
    /\ UNCHANGED <<heap, input, itemsList>>

\* what the caller may do to an array it holds
ArrayChanges(h, elems) ==
    {Append(elems, r) : r \in 1..Len(h)}
      \cup (IF Len(elems) >= 1 THEN {SubSeq(elems, 1, Len(elems) - 1)} ELSE {})
      \cup (IF Len(elems) >= 2
            THEN {[i \in Indices(elems) |-> elems[Len(elems) + 1 - i]]}
            ELSE {})

\* the caller changes the array items() returned: push, pop or reverse.  A
\* change of the engine's own array is a change of this.itemsList.
MutateReturned ==
    /\ pc = "returned"
    /\ last.op = "items"
    /\ \E new \in ArrayChanges(heap, last.ret) :
          /\ last' = [last EXCEPT !.op = "mutated", !.ret = new]
          /\ itemsList' = IF retArray = "itemsList" THEN new ELSE itemsList
    /\ UNCHANGED <<heap, input, pc, retArray>>

\* whiteboard.top()
CallTop ==
    /\ pc = "ready"
    /\ last' = [op |-> "top", ok |-> TRUE, err |-> "none", arg |-> <<>>,
                ret |-> IF Top(itemsList) = NoRef THEN <<>>
                        ELSE <<Top(itemsList)>>,
                before |-> itemsList, pre |-> heap]
    /\ retArray' = "none"
    /\ pc' = "returned"
    /\ UNCHANGED <<heap, input, itemsList>>

\* whiteboard.add(item), item a new object of the caller
CallAdd ==
    /\ pc = "ready"
    /\ \E item \in AddItem :
         LET h == Append(heap, item)
             r == Len(heap) + 1
             a == Add(h, itemsList, r)
         IN /\ heap' = h
            /\ itemsList' = a.list
            /\ last' = [op |-> "add", ok |-> a.ok, err |-> a.err,
                        arg |-> <<r>>, ret |-> <<>>, before |-> itemsList,
                        pre |-> h]
    /\ retArray' = "none"
    /\ pc' = "returned"
    /\ UNCHANGED input

\* whiteboard.extract(selection); gen are the values generateUniqueId returns
CallExtract ==
    /\ pc = "ready"
    /\ \E ids \in SeqsUpTo(LiveId, MaxSel), alias \in BOOLEAN :
         \E gen \in [1..Len(ids) -> GenId] :
            LET s == Selection(heap, itemsList, ids, alias, 1, <<>>)
                e == Extract(s.heap, itemsList, s.refs, gen)
            IN /\ heap' = e.heap
               /\ last' = [op |-> "extract", ok |-> e.ok, err |-> e.err,
                           arg |-> s.refs, ret |-> e.ret,
                           before |-> itemsList, pre |-> s.heap]
    /\ retArray' = "none"
    /\ pc' = "returned"
    /\ UNCHANGED <<input, itemsList>>

\* the caller drops the result and its own objects and goes on to the next call
Continue ==
    /\ pc = "returned"
    /\ pc' = "ready"
    /\ heap' = SubSeq(heap, 1, Len(itemsList))
    /\ last' = Idle
    /\ retArray' = "none"
    /\ UNCHANGED <<input, itemsList>>

Next ==
    New \/ CallItems \/ MutateReturned \/ CallTop \/ CallAdd \/ CallExtract
      \/ Continue

Spec == Init /\ [][Next]_vars

\* construction and reads only, over the larger id set
NextNew == New \/ CallItems \/ CallTop \/ Continue

SpecNew == InitNew /\ [][NextNew]_vars

\* the objects the engine holds are the first Len(itemsList) of the heap
TypeOK ==
    /\ pc \in {"new", "ready", "returned", "failed"}
    /\ pc \in {"ready", "returned"} => Range(itemsList) = 1..Len(itemsList)
    /\ \A r \in Range(itemsList) : r \in 1..Len(heap)

(***************************************************************************)
(* Vocabulary of the properties.                                           *)
(***************************************************************************)
IdsOf(h, refs) == {h[refs[i]].id : i \in Indices(refs)}

DistinctIds(h, refs) ==
    \A i, j \in Indices(refs) : i # j => h[refs[i]].id # h[refs[j]].id

\* refs, in this order, is a chain read bottom to top
IsChainOrder(h, refs) ==
    \A i \in Indices(refs) :
        h[refs[i]].lowerId = IF i = 1 THEN Undefined ELSE h[refs[i - 1]].id

Perms(refs) ==
    {p \in [Indices(refs) -> Range(refs)] : Range(p) = Range(refs)}

\* a duplicate-free record set that forms one unbranched chain
SingleChain(h, refs) ==
    DistinctIds(h, refs) /\ \E p \in Perms(refs) : IsChainOrder(h, p)

\* the item passed to the add call that `last` records
AddedRef == last.arg[1]

AddedItem == heap[AddedRef]

\* position of the record with this id in the sequence
PosOf(h, list, id) == CHOOSE k \in Indices(list) : h[list[k]].id = id

(***************************************************************************)
(* C1 (round-trip ordering).  For every input that is a permutation of a   *)
(* duplicate-free record set forming one unbranched chain, construction    *)
(* succeeds, the sequence holds exactly the input records in chain order   *)
(* (the first has lowerId undefined, each later one's lowerId is the id of *)
(* the one before), and top() is the last element (undefined when empty).  *)
(***************************************************************************)
C1_RoundTrip ==
    (last.op = "new" /\ SingleChain(last.pre, last.arg)) =>
        /\ last.ok
        /\ Len(itemsList) = Len(last.arg)
        /\ Range(itemsList) = Range(last.arg)
        /\ IsChainOrder(heap, itemsList)
        /\ Top(itemsList) = IF itemsList = <<>> THEN NoRef
                            ELSE Items(itemsList)[Len(itemsList)]

(***************************************************************************)
(* C2 (append preserves prefix).  After a successful add(x) the sequence   *)
(* is the sequence before the call with x appended, and top() is x.        *)
(***************************************************************************)
C2_AppendPreservesPrefix ==
    (last.op = "add" /\ last.ok) =>
        /\ Items(itemsList) = Append(last.before, AddedRef)
        /\ Top(itemsList) = AddedRef

\* a successful add on an engine that already holds two records
C2_Witness ==
    last.op = "add" /\ last.ok /\ Len(last.before) >= 2

(***************************************************************************)
(* C3 (extraction preserves relative order).  For a selection of two or    *)
(* more distinct records of the whiteboard, in any order, the copy of the  *)
(* whiteboard-lowest selected record has lowerId undefined and every other *)
(* copy's lowerId is the new id of the copy of the selected record just    *)
(* below it on the whiteboard.  (Stated for pairwise distinct new ids.)    *)
(***************************************************************************)
C3_ExtractKeepsBoardOrder ==
    (/\ last.op = "extract" /\ last.ok
     /\ Len(last.arg) >= 2
     /\ DistinctIds(last.pre, last.arg)
     /\ DistinctIds(heap, last.ret)) =>
        \A i \in Indices(last.arg) :
            LET pos(k) == PosOf(last.pre, last.before, last.pre[last.arg[k]].id)
                below == {k \in Indices(last.arg) : pos(k) < pos(i)}
            IN heap[last.ret[i]].lowerId =
                 IF below = {} THEN Undefined
                 ELSE heap[last.ret[CHOOSE k \in below :
                                \A l \in below : pos(l) <= pos(k)]].id

(***************************************************************************)
(* C4 (broken chain).  On an engine holding at least one record, add of an *)
(* item with a new id whose lowerId is not the id of the current top fails *)
(* and leaves the sequence unchanged.                                      *)
(***************************************************************************)
C4_BrokenChainRejected ==
    (/\ last.op = "add"
     /\ Len(last.before) >= 1
     /\ AddedItem.id \notin IdsOf(last.pre, last.before)
     /\ AddedItem.lowerId # last.pre[Top(last.before)].id) =>
        /\ ~last.ok
        /\ itemsList = last.before

\* a new id whose lowerId names a record below the top
C4_Witness ==
    /\ last.op = "add" /\ ~last.ok
    /\ Len(last.before) >= 2
    /\ AddedItem.id \notin IdsOf(last.pre, last.before)
    /\ AddedItem.lowerId = last.pre[last.before[1]].id
    /\ itemsList = last.before

(***************************************************************************)
(* C5 (empty engine).  On an engine constructed from an empty input, with  *)
(* no successful add yet, add of an item whose lowerId is a defined value  *)
(* fails and leaves the engine empty.                                      *)
(***************************************************************************)
C5_EmptyEngineNeedsUndefined ==
    (/\ last.op = "add"
     /\ last.before = <<>>
     /\ AddedItem.lowerId # Undefined) =>
        /\ ~last.ok
        /\ itemsList = <<>>

(***************************************************************************)
(* C6 (duplicate id).  add of an item whose id some held record has fails, *)
(* whatever its lowerId is, and items() and top() are as before the call.  *)
(***************************************************************************)
C6_DuplicateIdRejected ==
    (/\ last.op = "add"
     /\ AddedItem.id \in IdsOf(last.pre, last.before)) =>
        /\ ~last.ok
        /\ Items(itemsList) = last.before
        /\ Top(itemsList) = Top(last.before)

\* the id of a record below the top, with the lowerId add asks for
C6_Witness ==
    /\ last.op = "add" /\ ~last.ok
    /\ Len(last.before) >= 2
    /\ AddedItem.id = last.pre[last.before[1]].id
    /\ AddedItem.lowerId = last.pre[Top(last.before)].id

(***************************************************************************)
(* C7 (fresh ids).  The ids of the records a successful extract returns    *)
(* are pairwise distinct and none is the id of a record the engine holds.  *)
(***************************************************************************)
C7_ExtractedIdsFresh ==
    (last.op = "extract" /\ last.ok) =>
        /\ DistinctIds(heap, last.ret)
        /\ IdsOf(heap, last.ret) \cap IdsOf(heap, itemsList) = {}

(***************************************************************************)
(* C8 (extract changes nothing).  Whether extract succeeds or fails, the   *)
(* sequence is as before the call, every object that existed at the call   *)
(* (the records held and the selection passed) has the fields it had, and  *)
(* the records returned are new objects.                                   *)
(***************************************************************************)
C8_ExtractMutatesNothing ==
    (last.op = "extract") =>
        /\ itemsList = last.before
        /\ Len(heap) >= Len(last.pre)
        /\ \A r \in 1..Len(last.pre) : heap[r] = last.pre[r]
        /\ \A i \in Indices(last.ret) : last.ret[i] > Len(last.pre)

\* a successful extract of two of the engine's own objects
C8_Witness ==
    /\ last.op = "extract" /\ last.ok
    /\ Len(last.arg) = 2
    /\ Range(last.arg) \subseteq Range(itemsList)
    /\ heap[last.ret[2]].lowerId = heap[last.ret[1]].id

(***************************************************************************)
(* C9 (not found).  extract fails, returning nothing, when some record of  *)
(* the selection has an id no held record has, wherever it stands.         *)
(***************************************************************************)
C9_MissingIdRejected ==
    (/\ last.op = "extract"
     /\ \E i \in Indices(last.arg) :
           last.pre[last.arg[i]].id \notin IdsOf(last.pre, last.before)) =>
        /\ ~last.ok
        /\ last.ret = <<>>

\* the missing id stands last, after one that exists
C9_Witness ==
    /\ last.op = "extract" /\ ~last.ok
    /\ Len(last.arg) = 2
    /\ last.pre[last.arg[1]].id \in IdsOf(last.pre, last.before)
    /\ last.pre[last.arg[2]].id \notin IdsOf(last.pre, last.before)

(***************************************************************************)
(* C10 (dangling reference).  Construction fails for every duplicate-free  *)
(* input in which some record's lowerId is set to a value that is the id   *)
(* of no record of the input.                                              *)
(***************************************************************************)
C10_DanglingRejected ==
    (/\ last.op = "new"
     /\ DistinctIds(last.pre, last.arg)
     /\ \E i \in Indices(last.arg) :
           /\ last.pre[last.arg[i]].lowerId # Undefined
           /\ last.pre[last.arg[i]].lowerId \notin IdsOf(last.pre, last.arg)) =>
        /\ ~last.ok
        /\ pc = "failed"

\* a lowerId that is set names a record of refs
Closed(h, refs) ==
    \A r \in Range(refs) :
        h[r].lowerId # Undefined => h[r].lowerId \in IdsOf(h, refs)

\* the record of refs that r's lowerId names, if it is set and names one
RefBelow(h, refs, r) ==
    IF h[r].lowerId # Undefined /\ h[r].lowerId \in IdsOf(h, refs)
    THEN CHOOSE q \in Range(refs) : h[q].id = h[r].lowerId
    ELSE NoRef

\* the record k lowerId links below r
RECURSIVE WalkDown(_, _, _, _)
WalkDown(h, refs, r, k) ==
    IF k = 0 \/ r = NoRef THEN r
    ELSE WalkDown(h, refs, RefBelow(h, refs, r), k - 1)

\* some record is reached again by following lowerId links from it
HasCycle(h, refs) ==
    \E r \in Range(refs), k \in 1..Len(refs) : WalkDown(h, refs, r, k) = r

(***************************************************************************)
(* C11 (cycle).  Construction fails for every duplicate-free, closed input *)
(* whose lowerId relation contains a cycle, in every input order.          *)
(***************************************************************************)
C11_CycleRejected ==
    (/\ last.op = "new"
     /\ DistinctIds(last.pre, last.arg)
     /\ Closed(last.pre, last.arg)
     /\ HasCycle(last.pre, last.arg)) =>
        /\ ~last.ok
        /\ pc = "failed"

(***************************************************************************)
(* C12 (duplicate id in the input).  Construction fails whenever two       *)
(* records of the input share an id, whatever their positions, lowerIds    *)
(* and data.                                                               *)
(***************************************************************************)
C12_DuplicateInputRejected ==
    (last.op = "new" /\ ~DistinctIds(last.pre, last.arg)) =>
        /\ ~last.ok
        /\ pc = "failed"
        /\ itemsList = <<>>

\* the two records are not neighbours in the input and differ in lowerId
C12_Witness ==
    /\ last.op = "new" /\ ~last.ok
    /\ Len(last.arg) = 3
    /\ last.pre[1].id = last.pre[3].id
    /\ last.pre[1].id # last.pre[2].id
    /\ last.pre[1].lowerId # last.pre[3].lowerId

(***************************************************************************)
(* C13 (the extracted records are one chain).  For a non-empty selection   *)
(* of existing records and pairwise distinct generated ids: exactly one    *)
(* returned record has lowerId undefined, every other returned record's    *)
(* lowerId is the id of another returned record, no two returned records   *)
(* have the same lowerId, and no returned lowerId names a record of the    *)
(* whiteboard.                                                             *)
(***************************************************************************)
C13_ExtractedFormOneChain ==
    (/\ last.op = "extract" /\ last.ok
     /\ Len(last.arg) >= 1
     /\ DistinctIds(heap, last.ret)) =>
        /\ Cardinality({i \in Indices(last.ret) :
                           heap[last.ret[i]].lowerId = Undefined}) = 1
        /\ \A i \in Indices(last.ret) :
              heap[last.ret[i]].lowerId # Undefined =>
                 \E j \in Indices(last.ret) :
                    j # i /\ heap[last.ret[j]].id = heap[last.ret[i]].lowerId
        /\ \A i, j \in Indices(last.ret) :
              i # j => heap[last.ret[i]].lowerId # heap[last.ret[j]].lowerId
        /\ \A i \in Indices(last.ret) :
              heap[last.ret[i]].lowerId \notin IdsOf(heap, itemsList)

(***************************************************************************)
(* C14 (extracted data).  A successful extract returns one record per      *)
(* record of the selection, and the i-th returned record carries the data  *)
(* of the held record with the i-th selected id, not the data of the       *)
(* object passed in the selection.                                         *)
(***************************************************************************)
C14_ExtractedDataFromEngine ==
    (last.op = "extract" /\ last.ok) =>
        /\ Len(last.ret) = Len(last.arg)
        /\ \A i \in Indices(last.arg) :
              /\ i \in Indices(last.ret)
              /\ \E k \in Indices(last.before) :
                    /\ last.pre[last.before[k]].id = last.pre[last.arg[i]].id
                    /\ heap[last.ret[i]].data = last.pre[last.before[k]].data

\* two held records with different data, named by objects with other data
C14_Witness ==
    /\ last.op = "extract" /\ last.ok
    /\ Len(last.arg) = 2
    /\ Range(last.arg) \cap Range(last.before) = {}
    /\ heap[last.ret[1]].data # heap[last.ret[2]].data
    /\ \A i \in Indices(last.arg) :
          last.pre[last.arg[i]].data # heap[last.ret[i]].data

(***************************************************************************)
(* C15 (reads change nothing).  items() and top() leave the sequence and   *)
(* the records as they were and return the sequence and its last element,  *)
(* so repeated calls return equal results; changing the array that items() *)
(* returned (push, pop, reverse) leaves the sequence, hence what later     *)
(* items() and top() calls return, as it was.                              *)
(***************************************************************************)
C15_ReadsChangeNothing ==
    (last.op \in {"items", "top", "mutated"}) =>
        /\ Items(itemsList) = last.before
        /\ Top(itemsList) = Top(last.before)
        /\ heap = last.pre
        /\ last.op = "items" => last.ret = last.before
        /\ last.op = "top" =>
              last.ret = IF last.before = <<>> THEN <<>>
                         ELSE <<last.before[Len(last.before)]>>

\* the caller has changed the array returned for a sequence of two or more
C15_Witness ==
    /\ last.op = "mutated"
    /\ Len(last.before) >= 2
    /\ last.ret # last.before
    /\ itemsList = last.before

\* an engine exists: construction has succeeded
Constructed == pc \in {"ready", "returned"}

(***************************************************************************)
(* C16 (no dangling reference held).  In every state after a successful    *)
(* construction and any adds, every held record whose lowerId is set names *)
(* the id of a held record.                                                *)
(***************************************************************************)
C16_NoDanglingHeld ==
    Constructed =>
        \A r \in Range(itemsList) :
            heap[r].lowerId # Undefined =>
                heap[r].lowerId \in IdsOf(heap, itemsList)

(***************************************************************************)
(* C17 (no branching, one top).  In every state after a successful         *)
(* construction and any adds, no two held records have the same set        *)
(* lowerId, and the record top() returns is the only held record that no   *)
(* other held record's lowerId names.                                      *)
(***************************************************************************)
C17_NoBranchingOneTop ==
    Constructed =>
        /\ \A i, j \in Indices(itemsList) :
              (i # j /\ heap[itemsList[i]].lowerId # Undefined) =>
                 heap[itemsList[i]].lowerId # heap[itemsList[j]].lowerId
        /\ itemsList # <<>> =>
              {r \in Range(itemsList) :
                  \A q \in Range(itemsList) :
                      q # r => heap[q].lowerId # heap[r].id}
                = {Top(itemsList)}

(***************************************************************************)
(* C18 (each record once, lower records first).  For every accepted input  *)
(* the sequence holds each input record exactly once and nothing else, and *)
(* every record whose lowerId is set stands later in the sequence than the *)
(* record with that id; the latter still holds after successful adds.      *)
(***************************************************************************)
C18_EachOnceLowerFirst ==
    Constructed =>
        /\ (last.op = "new") =>
              /\ Len(itemsList) = Len(last.arg)
              /\ Range(itemsList) = Range(last.arg)
        /\ \A i, k \in Indices(itemsList) :
              (/\ heap[itemsList[i]].lowerId # Undefined
               /\ heap[itemsList[k]].id = heap[itemsList[i]].lowerId) => k < i

(***************************************************************************)
(* C19 (order of the checks).  A duplicate-free input that holds a record  *)
(* with a dangling lowerId and a cycle among other records fails with the  *)
(* dangling-reference error, in every order of the input.  (Stated for     *)
(* inputs in which every set lowerId is a truthy value.)                   *)
(***************************************************************************)
C19_DanglingReportedFirst ==
    (/\ last.op = "new"
     /\ DistinctIds(last.pre, last.arg)
     /\ \A i \in Indices(last.arg) : last.pre[last.arg[i]].lowerId # ""
     /\ ~Closed(last.pre, last.arg)
     /\ HasCycle(last.pre, last.arg)) =>
        /\ ~last.ok
        /\ last.err = "dangling"

(***************************************************************************)
(* C20 (only undefined means bottom).  A record whose lowerId is the       *)
(* defined but falsy value "" is treated like a record with any other      *)
(* lowerId: construction fails when no record has that id, fails when the  *)
(* record lies on a cycle, and otherwise places the record after the       *)
(* record with that id.                                                    *)
(***************************************************************************)
C20_FalsyLowerIdIsAReference ==
    (last.op = "new" /\ DistinctIds(last.pre, last.arg)) =>
        /\ (\E r \in Range(last.arg) :
               /\ last.pre[r].lowerId = ""
               /\ "" \notin IdsOf(last.pre, last.arg)) => ~last.ok
        /\ (\E r \in Range(last.arg), k \in 1..Len(last.arg) :
               /\ last.pre[r].lowerId = ""
               /\ WalkDown(last.pre, last.arg, r, k) = r) => ~last.ok
        /\ last.ok =>
              \A i, k \in Indices(itemsList) :
                 (/\ heap[itemsList[i]].lowerId = ""
                  /\ heap[itemsList[k]].id = "") => k < i

====
